---- MODULE Spec2Model ----
(***************************************************************************)
(* Model of blender_test_generator.py: the main block of the script, the   *)
(* Asset class (OBJ import, principled material, texture discovery and     *)
(* wiring) and the scene / render / compositing setup functions.           *)
(*                                                                         *)
(* Strings that the code takes apart (paths, file names, texture types)    *)
(* are sequences of one-character strings.  Float values are scaled to     *)
(* integers: socket default values in tenths, camera values in hundredths, *)
(* the lens dispersion in thousandths.                                     *)
(***************************************************************************)
EXTENDS Integers, Sequences, FiniteSets, TLC

VARIABLES pc, background, assetName, folderFiles, scene, filepath,
          object, name, materials, mat_nodes, mat_links,
          found_textures, tex_types, textures,
          exc, importResult, stdout, trace, renders

vars == <<pc, background, assetName, folderFiles, scene, filepath,
          object, name, materials, mat_nodes, mat_links,
          found_textures, tex_types, textures,
          exc, importResult, stdout, trace, renders>>

(***************************************************************************)
(* Bounds                                                                  *)
(***************************************************************************)
\* largest number of material slots an imported object is given
MaxSlots == 1

(***************************************************************************)
(* Character strings                                                       *)
(***************************************************************************)
SEP == "/"
PUMPKIN == <<"p","u","m","p","k","i","n">>
MY_PUMPKIN == <<"m","y","_">> \o PUMPKIN
OBJ == <<".","o","b","j">>
JPG == <<".","j","p","g">>
PNG == <<".","p","n","g">>
AO == <<"a","o">>
DIFFUSE == <<"d","i","f","f","u","s","e">>
ASSETS == <<"a","s","s","e","t","s">>
OBJECTS == <<"o","b","j","e","c","t","s">>
\* directory of the script file and directory of the open .blend file
ScriptDir == <<"/","s">>
BlendDir == <<"/","b">>

\* asset names the main block is run with
AssetNames == {PUMPKIN, MY_PUMPKIN}

\* files that may lie in the asset's folder
FileUniverse ==
    { PUMPKIN \o OBJ,
      PUMPKIN \o JPG,
      PUMPKIN \o <<"_">> \o AO \o JPG,
      PUMPKIN \o <<"_","A","O">> \o JPG,
      PUMPKIN \o <<"_","r">> \o JPG,
      PUMPKIN \o <<"2">> \o JPG,
      PUMPKIN \o PNG,
      MY_PUMPKIN \o OBJ,
      MY_PUMPKIN \o JPG,
      MY_PUMPKIN \o <<"_">> \o AO \o JPG }

(***************************************************************************)
(* String and path functions, as the Python library computes them          *)
(***************************************************************************)
UpperChars == <<"A","B","C","D","E","F","G","H","I","J","K","L","M",
                "N","O","P","Q","R","S","T","U","V","W","X","Y","Z">>
LowerChars == <<"a","b","c","d","e","f","g","h","i","j","k","l","m",
                "n","o","p","q","r","s","t","u","v","w","x","y","z">>

LowerChar(c) ==
    IF \E i \in 1..Len(UpperChars) : UpperChars[i] = c
    THEN LowerChars[CHOOSE i \in 1..Len(UpperChars) : UpperChars[i] = c]
    ELSE c

Lower(s) == [i \in 1..Len(s) |-> LowerChar(s[i])]

\* str.find / str.rfind, 1-based, 0 when absent
Find(s, c) ==
    LET I == {i \in 1..Len(s) : s[i] = c}
    IN  IF I = {} THEN 0 ELSE CHOOSE i \in I : \A j \in I : i <= j

RFind(s, c) ==
    LET I == {i \in 1..Len(s) : s[i] = c}
    IN  IF I = {} THEN 0 ELSE CHOOSE i \in I : \A j \in I : j <= i

StartsWith(s, p) == Len(p) <= Len(s) /\ SubSeq(s, 1, Len(p)) = p
EndsWith(s, p) == Len(p) <= Len(s) /\ SubSeq(s, Len(s) - Len(p) + 1, Len(s)) = p

\* str.partition(sep)[2] for a one-character separator
PartitionTail(s, c) ==
    LET i == Find(s, c)
    IN  IF i = 0 THEN <<>> ELSE SubSeq(s, i + 1, Len(s))

\* str.rpartition(sep)[2]: the text after the last separator
RPartitionTail(s, c) ==
    LET i == RFind(s, c)
    IN  IF i = 0 THEN s ELSE SubSeq(s, i + 1, Len(s))

Basename(p) == SubSeq(p, RFind(p, SEP) + 1, Len(p))

RECURSIVE RStripSep(_)
RStripSep(s) ==
    IF Len(s) > 0 /\ s[Len(s)] = SEP THEN RStripSep(SubSeq(s, 1, Len(s) - 1)) ELSE s

Dirname(p) ==
    LET head == SubSeq(p, 1, RFind(p, SEP))
    IN  IF head # <<>> /\ (\E i \in 1..Len(head) : head[i] # SEP)
        THEN RStripSep(head) ELSE head

\* os.path.splitext: the extension starts at the last dot of the last path
\* component, leading dots of that component not counted
Splitext(p) ==
    LET sepIndex == RFind(p, SEP)
        dotIndex == RFind(p, ".")
    IN  IF dotIndex > sepIndex
           /\ \E k \in (sepIndex + 1)..(dotIndex - 1) : p[k] # "."
        THEN <<SubSeq(p, 1, dotIndex - 1), SubSeq(p, dotIndex, Len(p))>>
        ELSE <<p, <<>>>>

Join2(a, b) ==
    IF StartsWith(b, <<SEP>>) THEN b
    ELSE IF a = <<>> \/ EndsWith(a, <<SEP>>) THEN a \o b
    ELSE a \o <<SEP>> \o b

RECURSIVE Join(_, _)
Join(a, ps) == IF ps = <<>> THEN a ELSE Join(Join2(a, Head(ps)), Tail(ps))

\* path(*paths): relative to the script in background mode, to the .blend
\* file otherwise
path(bg, paths) ==
    LET base == IF bg THEN Dirname(ScriptDir \o <<SEP, "x", ".", "p", "y">>)
                ELSE Dirname(BlendDir \o <<SEP>>)
    IN  Join(base, paths)

\* fnmatch of a directory entry against  <prefix>*.jpg
FnMatch(f, prefix) ==
    /\ StartsWith(f, prefix)
    /\ EndsWith(f, JPG)
    /\ Len(f) >= Len(prefix) + Len(JPG)

\* glob.glob(folder + name + '*.jpg') over the listing of the folder: the
\* set of matching paths (the order of the result is the listing's order)
Glob(folder, prefix, listing) ==
    { Join2(Dirname(folder \o prefix), f) : f \in {g \in listing : FnMatch(g, prefix)} }

\* all orders in which a directory listing may return a set of paths
RECURSIVE Orders(_)
Orders(S) ==
    IF S = {} THEN {<<>>}
    ELSE UNION { { <<x>> \o o : o \in Orders(S \ {x}) } : x \in S }

\* a mis-classification: the text after the LAST underscore
map_type_last(texture) ==
    LET nm == Lower(Splitext(Basename(texture))[1])
        suffix == RPartitionTail(nm, "_")
    IN  IF suffix # <<>> /\ suffix # nm THEN suffix ELSE DIFFUSE

\* map_type: the text after the first underscore of the lower-cased base
\* name, 'diffuse' when that text is empty
map_type(texture) ==
    LET nm == Lower(Splitext(Basename(texture))[1])
        suffix == PartitionTail(nm, "_")
    IN  IF suffix # <<>> THEN suffix ELSE DIFFUSE

\* dict(zip(keys, values)): a later pair replaces an earlier one
DictZip(keys, values) ==
    LET n == IF Len(keys) < Len(values) THEN Len(keys) ELSE Len(values)
        K == {keys[i] : i \in 1..n}
    IN  [k \in K |-> values[CHOOSE i \in 1..n :
                              keys[i] = k /\ \A j \in 1..n : keys[j] = k => j <= i]]

(***************************************************************************)
(* Host node trees                                                         *)
(***************************************************************************)
\* default name the host gives a new node of a type
DefaultName(type) ==
    CASE type = "ShaderNodeBsdfPrincipled" -> "Principled BSDF"
      [] type = "ShaderNodeTexImage" -> "Image Texture"
      [] type = "ShaderNodeMixRGB" -> "Mix"
      [] OTHER -> type

\* nodes.new(type): a node with the host's defaults
NewNode(type) ==
    [name |-> DefaultName(type), type |-> type, location |-> <<0, 0>>,
     image |-> <<>>,
     blend_type |-> IF type = "ShaderNodeMixRGB" THEN "MIX" ELSE "",
     subsurface |-> 0,
     fac |-> IF type = "ShaderNodeMixRGB" THEN 5 ELSE 0]

Link(fn, fs, tn, ts) ==
    [from_node |-> fn, from_socket |-> fs, to_node |-> tn, to_socket |-> ts]

\* links.new(output, input): an input socket holds one link, the new link
\* replaces the one that was there
LinksNew(links, l) ==
    {k \in links : ~(k.to_node = l.to_node /\ k.to_socket = l.to_socket)} \cup {l}

\* nodes.remove(node): the node goes, and its links with it
NodesRemove(nodes, nm) == {n \in nodes : n.name # nm}
LinksWithout(links, nm) == {k \in links : k.from_node # nm /\ k.to_node # nm}

NodeNamed(nodes, nm) == CHOOSE n \in nodes : n.name = nm
HasNode(nodes, nm) == \E n \in nodes : n.name = nm

\* material.use_nodes = True: the host's default material tree
DefaultMatNodes ==
    { [NewNode("ShaderNodeBsdfDiffuse") EXCEPT !.name = "Diffuse BSDF",
                                               !.location = <<10, 300>>],
      [NewNode("ShaderNodeOutputMaterial") EXCEPT !.name = "Material Output",
                                                  !.location = <<300, 300>>] }
DefaultMatLinks == { Link("Diffuse BSDF", "BSDF", "Material Output", "Surface") }

\* scene.use_nodes = True: the host's default compositing tree
DefaultCompNodes == {"Render Layers", "Composite"}
DefaultCompLinks == { Link("Render Layers", "Image", "Composite", "Image") }

(***************************************************************************)
(* The main block                                                          *)
(***************************************************************************)
\* a main block that builds the asset before it sets the scene up
MainBlockAssetFirst == <<"asset", "setup_scene", "setup_render", "setup_compositing", "render">>

\* the statements of the main block after filepath and scene are bound
MainBlock == <<"setup_scene", "setup_render", "setup_compositing", "asset", "render">>

\* the statement that follows statement s of the main block
After(s) ==
    LET i == CHOOSE k \in 1..Len(MainBlock) : MainBlock[k] = s
    IN  IF i < Len(MainBlock) THEN MainBlock[i + 1] ELSE "done"

\* an except clause that names FileNotFoundError only
CaughtFileNotFoundOnly == {"FileNotFoundError"}

\* an except clause that catches every exception
CaughtAll == {"RuntimeError", "FileNotFoundError", "KeyError", "IndexError"}

\* except (RuntimeError, FileNotFoundError)
Caught == {"RuntimeError", "FileNotFoundError"}

\* a render that does not look at the mode
ShouldRenderAlways(bg) == TRUE

\* if bpy.app.background
ShouldRender(bg) == bg

NoScene ==
    [objects |-> {}, camera |-> "", camera_location |-> <<0, 0, 0>>,
     camera_rotation |-> <<0, 0, 0>>,
     world_use_nodes |-> FALSE, world_nodes |-> {}, world_links |-> {},
     engine |-> "BLENDER_RENDER", resolution_percentage |-> 50,
     samples |-> 128, preview_samples |-> 32,
     view_transform |-> "Default", look |-> "None",
     render_filepath |-> "/tmp/", file_format |-> "PNG", color_mode |-> "RGBA",
     use_nodes |-> FALSE, comp_nodes |-> {}, comp_links |-> {},
     dispersion |-> 0]

NoObject == [imported |-> FALSE, materials |-> <<>>]

Init ==
    /\ background \in BOOLEAN
    /\ assetName \in AssetNames
    /\ folderFiles \in SUBSET FileUniverse
    /\ \E cam \in {"", "Camera"} : scene = [NoScene EXCEPT !.camera = cam]
    /\ filepath = path(background, <<ASSETS, OBJECTS, assetName, assetName \o OBJ>>)
    /\ pc = MainBlock[1]
    /\ object = NoObject
    /\ name = <<>>
    /\ materials = {}
    /\ mat_nodes = {}
    /\ mat_links = {}
    /\ found_textures = <<>>
    /\ tex_types = <<>>
    /\ textures = <<>>
    /\ exc = "none"
    /\ importResult = "none"
    /\ stdout = <<>>
    /\ trace = <<>>
    /\ renders = 0

assetVars == <<object, name, materials, mat_nodes, mat_links,
               found_textures, tex_types, textures, importResult>>
inputVars == <<background, assetName, folderFiles, filepath>>

\* setup_scene(scene)
SetupScene ==
    /\ pc = "setup_scene"
    /\ scene' = [scene EXCEPT
                   !.objects = @ \cup {"Plane"}
                                 \cup (IF scene.camera = "" THEN {"Camera"} ELSE {}),
                   !.camera = IF scene.camera = "" THEN "Camera" ELSE @,
                   !.camera_location = <<-123, -236, 218>>,
                   !.camera_rotation = <<100, 0, -50>>,
                   !.world_use_nodes = TRUE,
                   !.world_nodes = {"Background", "World Output", "Environment Texture"}]
    /\ trace' = Append(trace, "setup_scene")
    /\ pc' = After("setup_scene")
    /\ UNCHANGED <<inputVars, assetVars, exc, stdout, renders>>

\* setup_render(scene)
SetupRender ==
    /\ pc = "setup_render"
    /\ scene' = [scene EXCEPT
                   !.engine = "CYCLES",
                   !.resolution_percentage = 100,
                   !.samples = 250,
                   !.preview_samples = 250,
                   !.view_transform = "Filmic",
                   !.look = "Filmic - Base Contrast",
                   !.render_filepath = "//render.jpg",
                   !.file_format = "JPEG",
                   !.color_mode = "RGB"]
    /\ trace' = Append(trace, "setup_render")
    /\ pc' = After("setup_render")
    /\ UNCHANGED <<inputVars, assetVars, exc, stdout, renders>>

\* setup_compositing(scene)
SetupCompositing ==
    /\ pc = "setup_compositing"
    /\ scene' = [scene EXCEPT
                   !.use_nodes = TRUE,
                   !.comp_nodes = DefaultCompNodes \cup {"Lens Distortion"},
                   !.dispersion = 1,
                   !.comp_links =
                       LinksNew(LinksNew(DefaultCompLinks,
                                         Link("Render Layers", "Image", "Lens Distortion", "Image")),
                                Link("Lens Distortion", "Image", "Composite", "Image"))]
    /\ trace' = Append(trace, "setup_compositing")
    /\ pc' = After("setup_compositing")
    /\ UNCHANGED <<inputVars, assetVars, exc, stdout, renders>>

\* what bpy.ops.import_scene.obj can do with the file
ImportOutcomes(fp, listing) ==
    IF Basename(fp) \in listing THEN {"ok", "RuntimeError"}
    ELSE {"RuntimeError", "FileNotFoundError"}

\* Asset.__init__ up to the call of make_material
ImportObj ==
    /\ pc = "asset"
    /\ trace' = Append(trace, "import")
    /\ stdout' = Append(stdout, "importing")
    /\ \E r \in ImportOutcomes(filepath, folderFiles) :
         /\ importResult' = r
         /\ IF r = "ok"
            THEN /\ \E slots \in 0..MaxSlots :
                      object' = [imported |-> TRUE,
                                 materials |-> [i \in 1..slots |-> <<"o","b","j">>]]
                 /\ name' = Splitext(Basename(filepath))[1]
                 /\ exc' = "none"
                 /\ pc' = "make_material"
            ELSE /\ exc' = r
                 /\ pc' = "except"
                 /\ UNCHANGED <<object, name>>
    /\ UNCHANGED <<inputVars, scene, materials, mat_nodes, mat_links,
                   found_textures, tex_types, textures, renders>>

\* a principled node left where nodes.new puts it
NewPrincipledUnplaced(location) ==
    [NewNode("ShaderNodeBsdfPrincipled") EXCEPT !.subsurface = 1]

\* the principled node make_material creates: at the removed diffuse node's
\* location, Subsurface 0.1
NewPrincipled(location) ==
    [NewNode("ShaderNodeBsdfPrincipled") EXCEPT !.location = location,
                                                !.subsurface = 1]

\* Asset.make_material
MakeMaterial ==
    /\ pc = "make_material"
    /\ trace' = Append(trace, "make_material")
    /\ materials' = materials \cup {name}
    /\ IF Len(object.materials) = 0
       THEN \* object.data.materials[0] = ... on an object without slots
            /\ mat_nodes' = DefaultMatNodes
            /\ mat_links' = DefaultMatLinks
            /\ exc' = "IndexError"
            /\ pc' = "except"
            /\ UNCHANGED object
       ELSE LET location == NodeNamed(DefaultMatNodes, "Diffuse BSDF").location
                principled == NewPrincipled(location)
            IN  /\ object' = [object EXCEPT !.materials[1] = name]
                /\ mat_nodes' = NodesRemove(DefaultMatNodes, "Diffuse BSDF")
                                   \cup {principled}
                /\ mat_links' = LinksNew(LinksWithout(DefaultMatLinks, "Diffuse BSDF"),
                                         Link(principled.name, "BSDF",
                                              "Material Output", "Surface"))
                /\ exc' = "none"
                /\ pc' = "set_textures"
    /\ UNCHANGED <<inputVars, scene, name, found_textures, tex_types, textures,
                   importResult, stdout, renders>>

\* Asset.make_image_node
make_image_node(image_path) ==
    [NewNode("ShaderNodeTexImage") EXCEPT !.image = image_path]

\* a test for missing textures that never fires
NoTexturesNever(found) == FALSE

\* not any(found_textures)
NoTextures(found) == ~ \E i \in 1..Len(found) : found[i] # <<>>

\* the AO branch with the two colour inputs of the mix node exchanged
AOLinksSwapped(links) ==
    LinksNew(LinksNew(LinksNew(links,
        Link("Diffuse Map", "Color", "Apply Ambient Occlusion", "Color2")),
        Link("Ambient Occlusion Map", "Color", "Apply Ambient Occlusion", "Color1")),
        Link("Apply Ambient Occlusion", "Color", "Principled BSDF", "Base Color"))

\* the three links of the AO branch
AOLinks(links) ==
    LinksNew(LinksNew(LinksNew(links,
        Link("Diffuse Map", "Color", "Apply Ambient Occlusion", "Color1")),
        Link("Ambient Occlusion Map", "Color", "Apply Ambient Occlusion", "Color2")),
        Link("Apply Ambient Occlusion", "Color", "Principled BSDF", "Base Color"))

\* the link of the branch without AO
DiffuseLinks(links) ==
    LinksNew(links, Link("Diffuse Map", "Color", "Principled BSDF", "Base Color"))

Moved(node, loc, dx, nm) ==
    [node EXCEPT !.location = <<loc[1] - dx, loc[2]>>, !.name = nm]

\* Asset.set_textures
SetTextures ==
    /\ pc = "set_textures"
    /\ trace' = Append(trace, "set_textures")
    /\ LET folder == Dirname(filepath) \o <<SEP>>
       IN  \E found \in Orders(Glob(folder, name, folderFiles)) :
             /\ found_textures' = found
             /\ IF NoTextures(found)
                THEN /\ stdout' = Append(stdout, "no_textures")
                     /\ pc' = After("asset")
                     /\ UNCHANGED <<tex_types, textures, mat_nodes, mat_links, exc>>
                ELSE LET types == [i \in 1..Len(found) |-> map_type(found[i])]
                         texs == DictZip(types, found)
                         ploc == NodeNamed(mat_nodes, "Principled BSDF").location
                     IN  /\ tex_types' = types
                         /\ textures' = texs
                         /\ stdout' = Append(stdout, "found_textures")
                         /\ IF DIFFUSE \notin DOMAIN texs
                            THEN \* textures['diffuse']
                                 /\ exc' = "KeyError"
                                 /\ pc' = "except"
                                 /\ UNCHANGED <<mat_nodes, mat_links>>
                            ELSE LET diffuse == Moved(make_image_node(texs[DIFFUSE]),
                                                      ploc, 750, "Diffuse Map")
                                 IN  /\ IF AO \in DOMAIN texs
                                        THEN LET ao == Moved(make_image_node(texs[AO]),
                                                             ploc, 500, "Ambient Occlusion Map")
                                                 mix == [Moved(NewNode("ShaderNodeMixRGB"),
                                                               ploc, 250, "Apply Ambient Occlusion")
                                                           EXCEPT !.blend_type = "MULTIPLY",
                                                                  !.fac = 10]
                                             IN  /\ mat_nodes' = mat_nodes \cup {diffuse, ao, mix}
                                                 /\ mat_links' = AOLinks(mat_links)
                                        ELSE /\ mat_nodes' = mat_nodes \cup {diffuse}
                                             /\ mat_links' = DiffuseLinks(mat_links)
                                     /\ exc' = "none"
                                     /\ pc' = After("asset")
    /\ UNCHANGED <<inputVars, scene, object, name, materials, importResult, renders>>

\* except (RuntimeError, FileNotFoundError): print the diagnostic, go on
CatchImportError ==
    /\ pc = "except"
    /\ exc \in Caught
    /\ stdout' = Append(stdout, "cant_find")
    /\ exc' = "none"
    /\ pc' = After("asset")
    /\ UNCHANGED <<inputVars, scene, assetVars, trace, renders>>

\* any other exception leaves the try statement and ends the script
Abort ==
    /\ pc = "except"
    /\ exc \notin Caught
    /\ pc' = "aborted"
    /\ UNCHANGED <<inputVars, scene, assetVars, exc, stdout, trace, renders>>

\* bpy.ops.render.render(write_still=True) in background mode
Render ==
    /\ pc = "render"
    /\ ShouldRender(background)
    /\ renders' = renders + 1
    /\ trace' = Append(trace, "render")
    /\ pc' = After("render")
    /\ UNCHANGED <<inputVars, scene, assetVars, exc, stdout>>

\* interactive mode: the main block ends without a render
SkipRender ==
    /\ pc = "render"
    /\ ~ShouldRender(background)
    /\ pc' = After("render")
    /\ UNCHANGED <<inputVars, scene, assetVars, exc, stdout, trace, renders>>

Next ==
    \/ SetupScene
    \/ SetupRender
    \/ SetupCompositing
    \/ ImportObj
    \/ MakeMaterial
    \/ SetTextures
    \/ CatchImportError
    \/ Abort
    \/ Render
    \/ SkipRender

Spec == Init /\ [][Next]_vars

(***************************************************************************)
(* Properties                                                              *)
(***************************************************************************)
Ran(s) == \E i \in 1..Len(trace) : trace[i] = s
Printed(m) == \E i \in 1..Len(stdout) : stdout[i] = m
Rank(order, s) == CHOOSE k \in 1..Len(order) : order[k] = s
InOrder(order) ==
    \A i, j \in 1..Len(trace) : i < j => Rank(order, trace[i]) < Rank(order, trace[j])

\* the lower-cased base name of a texture file, extension removed
Stem(f) == Lower(Splitext(Basename(f))[1])

\* the files of the folder the pattern <name>*.jpg selects
Matching == {f \in folderFiles : StartsWith(f, assetName) /\ EndsWith(f, JPG)}

BaseColorLinks ==
    {k \in mat_links : k.to_node = "Principled BSDF" /\ k.to_socket = "Base Color"}

NodesOfType(t) == {n \in mat_nodes : n.type = t}

SpecOrder == <<"import", "make_material", "set_textures", "setup_scene",
               "setup_render", "setup_compositing", "render">>
CodeOrder == <<"setup_scene", "setup_render", "setup_compositing", "import",
               "make_material", "set_textures", "render">>

\* C1 as stated: the steps of a run happen in the order import, build
\* material, wire textures, scene, render settings, compositing, render, so
\* the import comes before setup_scene, setup_render and setup_compositing.
C1_ImportThenSetup == InOrder(SpecOrder)

\* C1 amended: the steps of a run happen in the order setup_scene,
\* setup_render, setup_compositing, import, make_material, set_textures,
\* render; none of the three setup steps is skipped before the import, the
\* asset steps run as far as construction gets, and a render comes after
\* the import attempt and is the last step.
C1_SetupThenImport ==
    \/ \E k \in 0..Len(CodeOrder) : trace = SubSeq(CodeOrder, 1, k)
    \/ \E k \in 4..6 : trace = Append(SubSeq(CodeOrder, 1, k), "render")

C1_Witness == trace = CodeOrder /\ pc = "done"

\* C2: when the import fails with RuntimeError or FileNotFoundError the main
\* block catches it, prints the diagnostic and goes on: the script is not
\* aborted, and in background mode the render is executed afterwards.
C2_ImportFailureCaught ==
    importResult \in {"RuntimeError", "FileNotFoundError"} =>
        /\ pc # "aborted"
        /\ pc \in {"render", "done"} => Printed("cant_find") /\ exc = "none"
        /\ pc = "done" /\ background => renders = 1 /\ trace[Len(trace)] = "render"

C2_Witness ==
    /\ importResult = "RuntimeError"
    /\ pc = "done"
    /\ background
    /\ renders = 1
    /\ Printed("cant_find")

C4_BaseColorWiring ==
    (Ran("set_textures") /\ exc = "none" /\ DIFFUSE \in DOMAIN textures) =>
        /\ Cardinality(BaseColorLinks) = 1
        /\ \E d \in NodesOfType("ShaderNodeTexImage") :
              /\ d.name = "Diffuse Map"
              /\ d.image = textures[DIFFUSE]
        /\ IF AO \in DOMAIN textures
           THEN /\ \E m \in NodesOfType("ShaderNodeMixRGB") :
                      /\ NodesOfType("ShaderNodeMixRGB") = {m}
                      /\ m.blend_type = "MULTIPLY"
                      /\ m.fac = 10
                      /\ Link("Diffuse Map", "Color", m.name, "Color1") \in mat_links
                      /\ Link("Ambient Occlusion Map", "Color", m.name, "Color2") \in mat_links
                      /\ BaseColorLinks = {Link(m.name, "Color", "Principled BSDF", "Base Color")}
                /\ \E a \in NodesOfType("ShaderNodeTexImage") :
                      /\ a.name = "Ambient Occlusion Map"
                      /\ a.image = textures[AO]
           ELSE /\ NodesOfType("ShaderNodeMixRGB") = {}
                /\ BaseColorLinks = {Link("Diffuse Map", "Color", "Principled BSDF", "Base Color")}

C4_Witness ==
    /\ pc = "done"
    /\ Ran("set_textures")
    /\ exc = "none"
    /\ DIFFUSE \in DOMAIN textures
    /\ AO \in DOMAIN textures
    /\ Cardinality(BaseColorLinks) = 1

\* C5: when set_textures has run and the folder holds <name>.jpg, that file
\* is classified 'diffuse' and is the image of the 'Diffuse Map' node.
C5_SameNameJpgIsDiffuse ==
    (Ran("set_textures") /\ (assetName \o JPG) \in folderFiles) =>
        /\ \E i \in 1..Len(found_textures) :
              /\ Basename(found_textures[i]) = assetName \o JPG
              /\ tex_types[i] = DIFFUSE
        /\ \E d \in mat_nodes :
              /\ d.name = "Diffuse Map"
              /\ Basename(d.image) = assetName \o JPG

\* C6: the render is triggered only in background mode and at most once; a
\* run that reaches the end of the main block has rendered once in
\* background mode and not at all in interactive mode; the render comes
\* after the three setup steps and the import attempt.
C6_RenderIffBackground ==
    /\ renders > 0 => background
    /\ renders <= 1
    /\ pc = "done" => renders = (IF background THEN 1 ELSE 0)
    /\ renders = 1 =>
          /\ trace[Len(trace)] = "render"
          /\ Ran("setup_scene") /\ Ran("setup_render") /\ Ran("setup_compositing")
          /\ Ran("import")

C6_Witness == pc = "done" /\ background /\ renders = 1 /\ importResult = "ok"

\* C7: when set_textures has run and no file matches <name>*.jpg, the
\* message is printed, no exception is raised, and the node tree is the one
\* make_material left: no image node, no mix node, no link into Base Color,
\* the BSDF -> Surface link still there.
C7_NoTexturesLeavesTree ==
    (Ran("set_textures") /\ Matching = {}) =>
        /\ Printed("no_textures")
        /\ exc = "none"
        /\ pc \notin {"except", "aborted"}
        /\ NodesOfType("ShaderNodeTexImage") = {}
        /\ NodesOfType("ShaderNodeMixRGB") = {}
        /\ BaseColorLinks = {}
        /\ {n.name : n \in mat_nodes} = {"Material Output", "Principled BSDF"}
        /\ mat_links = {Link("Principled BSDF", "BSDF", "Material Output", "Surface")}

C7_Witness ==
    /\ Ran("set_textures")
    /\ Matching = {}
    /\ pc = "done"
    /\ Printed("no_textures")

\* C8: once make_material has returned, the material named after the asset
\* is in slot 0 of the object, the tree has no 'Diffuse BSDF' node and
\* exactly one principled node, at the removed diffuse node's location with
\* Subsurface 0.1, linked to Surface of 'Material Output'; set_textures runs
\* only after make_material has returned.
C8_PrincipledMaterial ==
    /\ (Ran("make_material") /\ exc # "IndexError") =>
          /\ name = assetName
          /\ name \in materials
          /\ object.materials[1] = name
          /\ ~HasNode(mat_nodes, "Diffuse BSDF")
          /\ \E q \in NodesOfType("ShaderNodeBsdfPrincipled") :
                /\ NodesOfType("ShaderNodeBsdfPrincipled") = {q}
                /\ q.location = <<10, 300>>
                /\ q.subsurface = 1
                /\ Link(q.name, "BSDF", "Material Output", "Surface") \in mat_links
    /\ Ran("set_textures") => Ran("make_material") /\ exc # "IndexError"

C8_Witness == pc = "set_textures" /\ Ran("make_material") /\ exc = "none"

\* C9: when textures are found but none of them is classified 'diffuse',
\* set_textures raises KeyError before any image node is created, the main
\* block does not catch it, and the render is never reached.
C9_NoDiffuseAborts ==
    (/\ Ran("set_textures")
     /\ Len(found_textures) > 0
     /\ \A i \in 1..Len(tex_types) : tex_types[i] # DIFFUSE) =>
        /\ exc = "KeyError"
        /\ pc \in {"except", "aborted"}
        /\ renders = 0
        /\ ~Ran("render")
        /\ NodesOfType("ShaderNodeTexImage") = {}
        /\ BaseColorLinks = {}

C9_Witness ==
    /\ pc = "aborted"
    /\ exc = "KeyError"
    /\ Len(found_textures) > 0
    /\ \A i \in 1..Len(tex_types) : tex_types[i] = AO

====
